---- MODULE Spec2Model ----
(***************************************************************************)
(* Model of yb/rocksdb/db/version_edit.h: FileDescriptor (packed file      *)
(* number and path id), FileMetaData and the VersionEdit accumulator.      *)
(*                                                                         *)
(* assert(...) is modelled with assertions enabled: a failed assertion     *)
(* terminates the process (aborted = TRUE) and nothing runs afterwards.    *)
(*                                                                         *)
(* The bodies of PackFileNumberAndPathId, FileMetaData::FileMetaData,      *)
(* FileMetaData::UpdateBoundaries, VersionEdit::Clear, EncodeTo /          *)
(* AppendEncodedTo and DecodeFrom live in version_edit.cc, which is not    *)
(* among the sources; they are modelled from the specification text.       *)
(***************************************************************************)
EXTENDS Integers, Sequences, FiniteSets, TLC

(***************************************************************************)
(* Bounds of the model.                                                    *)
(***************************************************************************)
MaxCalls == 3
MaxPathId == 5
MaxKeys == 3

(***************************************************************************)
(* uint64_t as four 16-bit limbs <<l3, l2, l1, l0>>, most significant      *)
(* first, so that 64-bit wrap-around is computed exactly.                  *)
(***************************************************************************)
LimbBase == 2^16

U64(n) == <<0, 0, 0, n>>

\* 0x3FFFFFFFFFFFFFFF
kFileNumberMask == <<16383, 65535, 65535, 65535>>

RECURSIVE BitAnd16(_, _, _)
BitAnd16(x, y, bits) ==
  IF bits = 0 THEN 0
  ELSE (IF x % 2 = 1 /\ y % 2 = 1 THEN 1 ELSE 0)
       + 2 * BitAnd16(x \div 2, y \div 2, bits - 1)

\* a & b on uint64_t
And64(a, b) == [i \in 1..4 |-> BitAnd16(a[i], b[i], 16)]

\* a + b on uint64_t (wraps modulo 2^64)
Add64(a, b) ==
  LET s0 == a[4] + b[4]
      s1 == a[3] + b[3] + (s0 \div LimbBase)
      s2 == a[2] + b[2] + (s1 \div LimbBase)
      s3 == a[1] + b[1] + (s2 \div LimbBase)
  IN  <<s3 % LimbBase, s2 % LimbBase, s1 % LimbBase, s0 % LimbBase>>

\* kFileNumberMask + 1 = 2^62 = <<16384, 0, 0, 0>>
kPathIdUnit == Add64(kFileNumberMask, U64(1))

\* path_id * (kFileNumberMask + 1) on uint64_t: only the top limb of the
\* multiplier is non-zero, so the product wraps in the top limb alone.
MulByUnit(path_id) == <<(path_id * kPathIdUnit[1]) % LimbBase, 0, 0, 0>>

\* packed / (kFileNumberMask + 1): the divisor is kPathIdUnit[1] * 2^48 and the
\* three low limbs are below 2^48, so the quotient is that of the top limbs.
DivByUnit(packed) == packed[1] \div kPathIdUnit[1]

\* number <= kFileNumberMask
FitsFileNumber(number) == number[1] <= kFileNumberMask[1]

\* path_id fits the two bits above the file number
FitsPathId(path_id) == path_id \in 0..3

\* PackFileNumberAndPathId(number, path_id): number + path_id * (mask + 1),
\* no range validation (out-of-range inputs wrap silently).
PackFileNumberAndPathId(number, path_id) == Add64(number, MulByUnit(path_id))

NullPtr == "nullptr"

\* FileDescriptor(number, path_id, _total_file_size, _base_file_size)
FileDescriptor(number, path_id, total_file_size, base_file_size) ==
  [ table_reader              |-> NullPtr,
    packed_number_and_path_id |-> PackFileNumberAndPathId(number, path_id),
    total_file_size           |-> total_file_size,
    base_file_size            |-> base_file_size ]

\* Mutant of GetNumber: masks one bit too many (0x7FFFFFFFFFFFFFFF).
GetNumber_WideMask(fd) ==
  And64(fd.packed_number_and_path_id, <<32767, 65535, 65535, 65535>>)

\* FileDescriptor::GetNumber
GetNumber(fd) == And64(fd.packed_number_and_path_id, kFileNumberMask)

\* FileDescriptor::GetPathId
GetPathId(fd) == DivByUnit(fd.packed_number_and_path_id)

(***************************************************************************)
(* FileMetaData                                                            *)
(***************************************************************************)
\* OpId(term, index)
OpId(term, index) == [term |-> term, index |-> index]

\* FileBoundaryValues<InternalKey>: the key and the sequence number
BoundaryValues(key, seqno) == [key |-> key, seqno |-> seqno]

\* An InternalKey is a byte string, here of at most one byte; the empty
\* string is the key of a boundary no key was ever stored in.
NoKey == <<>>
Key(k) == <<k>>

\* FileMetaData::FileMetaData(): counters zero, flags false, no reader.
FileMetaData ==
  [ refs                   |-> 0,
    fd                     |-> FileDescriptor(U64(0), 0, 0, 0),
    being_compacted        |-> FALSE,
    smallest               |-> BoundaryValues(NoKey, 0),
    largest                |-> BoundaryValues(NoKey, 0),
    last_op_id             |-> OpId(0, 0),
    imported               |-> FALSE,
    table_reader_handle    |-> NullPtr,
    compensated_file_size  |-> 0,
    num_entries            |-> 0,
    num_deletions          |-> 0,
    raw_key_size           |-> 0,
    raw_value_size         |-> 0,
    init_stats_from_file   |-> FALSE,
    marked_for_compaction  |-> FALSE ]

(***************************************************************************)
(* Inputs of the file mutators.  liveFile is a FileMetaData of a running   *)
(* process (reader open, referenced, being compacted, stats loaded);       *)
(* plainFile is a freshly described file on path 1; badFile has            *)
(* smallest.seqno > largest.seqno.                                         *)
(***************************************************************************)
liveFile ==
  [ FileMetaData EXCEPT
      !.refs = 2,
      !.fd = [FileDescriptor(U64(100), 0, 4096, 1024) EXCEPT !.table_reader = "reader1"],
      !.being_compacted = TRUE,
      !.smallest = BoundaryValues(Key(1), 5),
      !.largest = BoundaryValues(Key(2), 9),
      !.last_op_id = OpId(1, 9),
      !.imported = TRUE,
      !.table_reader_handle = "handle1",
      !.compensated_file_size = 4200,
      !.num_entries = 7,
      !.num_deletions = 1,
      !.raw_key_size = 64,
      !.raw_value_size = 128,
      !.init_stats_from_file = TRUE,
      !.marked_for_compaction = TRUE ]

plainFile ==
  [ FileMetaData EXCEPT
      !.fd = FileDescriptor(U64(101), 1, 2048, 2048),
      !.smallest = BoundaryValues(Key(3), 3),
      !.largest = BoundaryValues(Key(3), 3),
      !.last_op_id = OpId(1, 3) ]

badFile ==
  [ liveFile EXCEPT
      !.fd = FileDescriptor(U64(102), 0, 512, 512),
      !.smallest = BoundaryValues(Key(1), 9),
      !.largest = BoundaryValues(Key(2), 5) ]

Files == {liveFile, plainFile, badFile}
Levels == {2, 3}
FileNumbers == {100, 101}
Numbers == {0, 1}
Names == {"", "cmp"}
OpIds == {OpId(0, 0), OpId(1, 2)}

(***************************************************************************)
(* boost::optional<T>: <<>> is "not set", <<v>> is "set to v".             *)
(***************************************************************************)
None == <<>>
Some(v) == <<v>>
IsSet(o) == o # None

(***************************************************************************)
(* std::set<std::pair<int, uint64_t>>: a strictly increasing sequence.     *)
(***************************************************************************)
PairLess(a, b) == a[1] < b[1] \/ (a[1] = b[1] /\ a[2] < b[2])

\* The elements of a sequence.
Range(s) == {s[i] : i \in 1..Len(s)}

Contains(s, x) == \E i \in 1..Len(s) : s[i] = x

\* std::set::insert: no effect when an equal element is present
SetInsert(s, x) ==
  IF Contains(s, x) THEN s
  ELSE LET before == SelectSeq(s, LAMBDA y : PairLess(y, x))
           after == SelectSeq(s, LAMBDA y : PairLess(x, y))
       IN  before \o <<x>> \o after

(***************************************************************************)
(* VersionEdit                                                             *)
(***************************************************************************)
\* VersionEdit::Clear(): every optional unset, no files, default column
\* family, no column-family lifecycle change.
ClearedEdit ==
  [ comparator_            |-> None,
    log_number_            |-> None,
    prev_log_number_       |-> None,
    next_file_number_      |-> None,
    max_column_family_     |-> None,
    last_sequence_         |-> None,
    flushed_op_id_         |-> OpId(0, 0),
    deleted_files_         |-> <<>>,
    new_files_             |-> <<>>,
    column_family_         |-> 0,
    is_column_family_drop_ |-> FALSE,
    column_family_name_    |-> None ]

VARIABLES
  edit,          \* the VersionEdit being built
  aborted,       \* an assertion failed: the process is gone
  calls,         \* number of mutator calls made on edit
  lastCall,      \* the last mutator call: [op, args]
  prevEdit,      \* the record as it was when that call was made
  pc,            \* "build", "encoded" or "decoded"
  dst,           \* the string AppendEncodedTo appended to
  encodeOk,      \* what AppendEncodedTo returned
  decoded,       \* the VersionEdit DecodeFrom was called on
  decodeStatus,  \* "none", "ok" or "corruption"
  fd,            \* FileDescriptor under construction: the last one built
  fdArgs,        \* <<number, path_id>> it was built from
  fdPrev,        \* the FileDescriptor built before it
  fdPrevArgs,    \* <<number, path_id>> of that one
  meta,          \* [smallest, largest] of one FileMetaData
  keysFed        \* the (key, source seqno) pairs fed to UpdateBoundaries

editVars == <<edit, aborted, calls, lastCall, prevEdit, pc, dst, encodeOk, decoded, decodeStatus>>
fdVars == <<fd, fdArgs, fdPrev, fdPrevArgs>>
ubVars == <<meta, keysFed>>
vars == <<editVars, fdVars, ubVars>>

Call(op, args) == [op |-> op, args |-> args]

\* size_t NumEntries()
NumEntries(e) == Len(e.new_files_) + Len(e.deleted_files_)

\* bool IsColumnFamilyAdd()
IsColumnFamilyAdd(e) == IsSet(e.column_family_name_)

\* bool IsColumnFamilyManipulation()
IsColumnFamilyManipulation(e) == IsColumnFamilyAdd(e) \/ e.is_column_family_drop_

\* A mutator may be called: the record is being built and the process lives.
CanCall == pc = "build" /\ ~aborted /\ calls < MaxCalls

\* What every mutator call leaves alone, and the bookkeeping of the call.
Called(op, args) ==
  /\ calls' = calls + 1
  /\ lastCall' = Call(op, args)
  /\ prevEdit' = edit
  /\ UNCHANGED <<pc, dst, encodeOk, decoded, decodeStatus, fdVars, ubVars>>

\* The call returned normally with the record changed to e.
Returns(e) == edit' = e /\ aborted' = FALSE

\* An assert(...) of the call failed.
Aborts == edit' = edit /\ aborted' = TRUE

(***************************************************************************)
(* Field setters                                                           *)
(***************************************************************************)
SetComparatorName(name) ==
  /\ CanCall
  /\ Returns([edit EXCEPT !.comparator_ = Some(name)])
  /\ Called("SetComparatorName", <<name>>)

SetLogNumber(num) ==
  /\ CanCall
  /\ Returns([edit EXCEPT !.log_number_ = Some(num)])
  /\ Called("SetLogNumber", <<num>>)

SetPrevLogNumber(num) ==
  /\ CanCall
  /\ Returns([edit EXCEPT !.prev_log_number_ = Some(num)])
  /\ Called("SetPrevLogNumber", <<num>>)

SetNextFile(num) ==
  /\ CanCall
  /\ Returns([edit EXCEPT !.next_file_number_ = Some(num)])
  /\ Called("SetNextFile", <<num>>)

SetLastSequence(seq) ==
  /\ CanCall
  /\ Returns([edit EXCEPT !.last_sequence_ = Some(seq)])
  /\ Called("SetLastSequence", <<seq>>)

SetFlushedOpId(value) ==
  /\ CanCall
  /\ Returns([edit EXCEPT !.flushed_op_id_ = value])
  /\ Called("SetFlushedOpId", <<value>>)

SetMaxColumnFamily(max_column_family) ==
  /\ CanCall
  /\ Returns([edit EXCEPT !.max_column_family_ = Some(max_column_family)])
  /\ Called("SetMaxColumnFamily", <<max_column_family>>)

SetColumnFamily(column_family_id) ==
  /\ CanCall
  /\ Returns([edit EXCEPT !.column_family_ = column_family_id])
  /\ Called("SetColumnFamily", <<column_family_id>>)

(***************************************************************************)
(* File mutators                                                           *)
(***************************************************************************)
\* The FileMetaData AddTestFile builds from its arguments.
TestFile(fdesc, smallest, largest, marked_for_compaction) ==
  [ FileMetaData EXCEPT
      !.fd = [fdesc EXCEPT !.table_reader = NullPtr],
      !.smallest = smallest,
      !.largest = largest,
      !.last_op_id = OpId(1, largest.seqno),
      !.marked_for_compaction = marked_for_compaction ]

AddTestFile(level, fdesc, smallest, largest, marked_for_compaction) ==
  /\ CanCall
  /\ IF smallest.seqno <= largest.seqno
       THEN Returns([edit EXCEPT !.new_files_ =
              Append(@, <<level, TestFile(fdesc, smallest, largest, marked_for_compaction)>>)])
       ELSE Aborts
  /\ Called("AddTestFile", <<level, fdesc, smallest, largest, marked_for_compaction>>)

\* Mutant of AddFile: the assertion on the sequence numbers is missing.
AddFile_NoAssert(level, f) ==
  /\ CanCall
  /\ Returns([edit EXCEPT !.new_files_ = Append(@, <<level, f>>)])
  /\ Called("AddFile", <<level, f>>)

\* Mutant of AddFile: a (level, file) entry already present is not added again.
AddFile_Once(level, f) ==
  /\ CanCall
  /\ IF f.smallest.seqno <= f.largest.seqno
       THEN Returns([edit EXCEPT !.new_files_ =
              IF <<level, f>> \in Range(@) THEN @ ELSE Append(@, <<level, f>>)])
       ELSE Aborts
  /\ Called("AddFile", <<level, f>>)

AddFile(level, f) ==
  /\ CanCall
  /\ IF f.smallest.seqno <= f.largest.seqno
       THEN Returns([edit EXCEPT !.new_files_ = Append(@, <<level, f>>)])
       ELSE Aborts
  /\ Called("AddFile", <<level, f>>)

\* The FileMetaData AddCleanedFile stores for f.
CleanedFile(f) ==
  [ FileMetaData EXCEPT
      !.fd = [f.fd EXCEPT !.table_reader = NullPtr],
      !.smallest = f.smallest,
      !.largest = f.largest,
      !.last_op_id = f.last_op_id,
      !.marked_for_compaction = f.marked_for_compaction,
      !.imported = f.imported ]

\* Mutant of AddCleanedFile: nf.fd.table_reader = nullptr is missing.
AddCleanedFile_KeepReader(level, f) ==
  /\ CanCall
  /\ IF f.smallest.seqno <= f.largest.seqno
       THEN Returns([edit EXCEPT !.new_files_ =
              Append(@, <<level, [CleanedFile(f) EXCEPT !.fd = f.fd]>>)])
       ELSE Aborts
  /\ Called("AddCleanedFile", <<level, f>>)

AddCleanedFile(level, f) ==
  /\ CanCall
  /\ IF f.smallest.seqno <= f.largest.seqno
       THEN Returns([edit EXCEPT !.new_files_ = Append(@, <<level, CleanedFile(f)>>)])
       ELSE Aborts
  /\ Called("AddCleanedFile", <<level, f>>)

\* Mutant of DeleteFile: the deletions are kept in a vector (push_back).
DeleteFile_PushBack(level, file) ==
  /\ CanCall
  /\ Returns([edit EXCEPT !.deleted_files_ = Append(@, <<level, file>>)])
  /\ Called("DeleteFile", <<level, file>>)

DeleteFile(level, file) ==
  /\ CanCall
  /\ Returns([edit EXCEPT !.deleted_files_ = SetInsert(@, <<level, file>>)])
  /\ Called("DeleteFile", <<level, file>>)

(***************************************************************************)
(* Column-family lifecycle                                                 *)
(***************************************************************************)
\* Mutant of AddColumnFamily: assert(!is_column_family_drop_) is missing.
AddColumnFamily_NoDropAssert(name) ==
  /\ CanCall
  /\ IF ~IsSet(edit.column_family_name_) /\ NumEntries(edit) = 0
       THEN Returns([edit EXCEPT !.column_family_name_ = Some(name)])
       ELSE Aborts
  /\ Called("AddColumnFamily", <<name>>)

AddColumnFamily(name) ==
  /\ CanCall
  /\ IF /\ ~edit.is_column_family_drop_
        /\ ~IsSet(edit.column_family_name_)
        /\ NumEntries(edit) = 0
       THEN Returns([edit EXCEPT !.column_family_name_ = Some(name)])
       ELSE Aborts
  /\ Called("AddColumnFamily", <<name>>)

DropColumnFamily ==
  /\ CanCall
  /\ IF /\ ~edit.is_column_family_drop_
        /\ ~IsSet(edit.column_family_name_)
        /\ NumEntries(edit) = 0
       THEN Returns([edit EXCEPT !.is_column_family_drop_ = TRUE])
       ELSE Aborts
  /\ Called("DropColumnFamily", <<>>)

\* void Clear()
Clear ==
  /\ CanCall
  /\ Returns(ClearedEdit)
  /\ Called("Clear", <<>>)

(***************************************************************************)
(* Encoding: the persisted message is a sequence of <<tag, payload>>       *)
(* fields.  Optional fields are written only when set; the flushed op id   *)
(* and the column-family fields are always written; file additions are     *)
(* written in order, without the fields that only mean something in a      *)
(* live process (refs, table reader, reader handle, being_compacted).      *)
(***************************************************************************)
OptionalField(tag, o) == IF IsSet(o) THEN << <<tag, o[1]>> >> ELSE <<>>

\* One file-addition entry.
EncodeNewFile(level, f) ==
  [ level                     |-> level,
    packed_number_and_path_id |-> f.fd.packed_number_and_path_id,
    total_file_size           |-> f.fd.total_file_size,
    base_file_size            |-> f.fd.base_file_size,
    smallest                  |-> f.smallest,
    largest                   |-> f.largest,
    last_op_id                |-> <<f.last_op_id.term, f.last_op_id.index>>,
    imported                  |-> f.imported,
    compensated_file_size     |-> f.compensated_file_size,
    stats                     |-> <<f.num_entries, f.num_deletions, f.raw_key_size,
                                    f.raw_value_size, f.init_stats_from_file>>,
    marked_for_compaction     |-> f.marked_for_compaction ]

\* Mutant of EncodeTo: a log number of zero is taken for "not set".
EncodeTo_ZeroIsUnset(e) ==
  [ ok  |-> ~(IsSet(e.column_family_name_) /\ e.is_column_family_drop_),
    msg |-> OptionalField("comparator", e.comparator_)
            \o (IF e.log_number_ = Some(0) THEN <<>>
                ELSE OptionalField("log_number", e.log_number_))
            \o OptionalField("prev_log_number", e.prev_log_number_)
            \o OptionalField("next_file_number", e.next_file_number_)
            \o OptionalField("max_column_family", e.max_column_family_)
            \o OptionalField("last_sequence", e.last_sequence_)
            \o << <<"flushed_op_id", <<e.flushed_op_id_.term, e.flushed_op_id_.index>> >> >>
            \o [i \in 1..Len(e.new_files_) |->
                  <<"new_file", EncodeNewFile(e.new_files_[i][1], e.new_files_[i][2])>>]
            \o [i \in 1..Len(e.deleted_files_) |-> <<"deleted_file", e.deleted_files_[i]>>]
            \o << <<"column_family", e.column_family_>> >>
            \o OptionalField("column_family_name", e.column_family_name_)
            \o << <<"is_column_family_drop", e.is_column_family_drop_>> >> ]

\* bool EncodeTo(VersionEditPB* out): false only for a record that claims to
\* create and to drop a column family at once.
EncodeTo(e) ==
  [ ok  |-> ~(IsSet(e.column_family_name_) /\ e.is_column_family_drop_),
    msg |-> OptionalField("comparator", e.comparator_)
            \o OptionalField("log_number", e.log_number_)
            \o OptionalField("prev_log_number", e.prev_log_number_)
            \o OptionalField("next_file_number", e.next_file_number_)
            \o OptionalField("max_column_family", e.max_column_family_)
            \o OptionalField("last_sequence", e.last_sequence_)
            \o << <<"flushed_op_id", <<e.flushed_op_id_.term, e.flushed_op_id_.index>> >> >>
            \o [i \in 1..Len(e.new_files_) |->
                  <<"new_file", EncodeNewFile(e.new_files_[i][1], e.new_files_[i][2])>>]
            \o [i \in 1..Len(e.deleted_files_) |-> <<"deleted_file", e.deleted_files_[i]>>]
            \o << <<"column_family", e.column_family_>> >>
            \o OptionalField("column_family_name", e.column_family_name_)
            \o << <<"is_column_family_drop", e.is_column_family_drop_>> >> ]

\* The FileMetaData rebuilt from one file-addition entry.
DecodeNewFile(v) ==
  [ FileMetaData EXCEPT
      !.fd = [ table_reader              |-> NullPtr,
               packed_number_and_path_id |-> v.packed_number_and_path_id,
               total_file_size           |-> v.total_file_size,
               base_file_size            |-> v.base_file_size ],
      !.smallest = v.smallest,
      !.largest = v.largest,
      !.last_op_id = OpId(v.last_op_id[1], v.last_op_id[2]),
      !.imported = v.imported,
      !.compensated_file_size = v.compensated_file_size,
      !.num_entries = v.stats[1],
      !.num_deletions = v.stats[2],
      !.raw_key_size = v.stats[3],
      !.raw_value_size = v.stats[4],
      !.init_stats_from_file = v.stats[5],
      !.marked_for_compaction = v.marked_for_compaction ]

\* A field the decoder rejects: a file whose boundaries are out of order.
CorruptField(field) ==
  field[1] = "new_file" /\ field[2].smallest.seqno > field[2].largest.seqno

\* The record after one field of the message is read into it.
DecodeField(e, field) ==
  LET tag == field[1]
      v == field[2]
  IN  CASE tag = "comparator" -> [e EXCEPT !.comparator_ = Some(v)]
        [] tag = "log_number" -> [e EXCEPT !.log_number_ = Some(v)]
        [] tag = "prev_log_number" -> [e EXCEPT !.prev_log_number_ = Some(v)]
        [] tag = "next_file_number" -> [e EXCEPT !.next_file_number_ = Some(v)]
        [] tag = "max_column_family" -> [e EXCEPT !.max_column_family_ = Some(v)]
        [] tag = "last_sequence" -> [e EXCEPT !.last_sequence_ = Some(v)]
        [] tag = "flushed_op_id" -> [e EXCEPT !.flushed_op_id_ = OpId(v[1], v[2])]
        [] tag = "new_file" ->
             [e EXCEPT !.new_files_ = Append(@, <<v.level, DecodeNewFile(v)>>)]
        [] tag = "deleted_file" -> [e EXCEPT !.deleted_files_ = SetInsert(@, v)]
        [] tag = "column_family" -> [e EXCEPT !.column_family_ = v]
        [] tag = "column_family_name" -> [e EXCEPT !.column_family_name_ = Some(v)]
        [] tag = "is_column_family_drop" -> [e EXCEPT !.is_column_family_drop_ = v]

RECURSIVE DecodeFields(_, _, _)
DecodeFields(e, msg, i) ==
  IF i > Len(msg) THEN e ELSE DecodeFields(DecodeField(e, msg[i]), msg, i + 1)

\* Status DecodeFrom(extractor, src) on a record: the record and the status.
\* A corrupt message leaves the record cleared.
Decode(msg) ==
  LET e == DecodeFields(ClearedEdit, msg, 1)
      bad == \/ \E i \in 1..Len(msg) : CorruptField(msg[i])
             \/ (IsSet(e.column_family_name_) /\ e.is_column_family_drop_)
  IN  IF bad THEN [status |-> "corruption", edit |-> ClearedEdit]
      ELSE [status |-> "ok", edit |-> e]

\* bool AppendEncodedTo(std::string* dst)
AppendEncodedTo ==
  /\ pc = "build" /\ ~aborted
  /\ LET r == EncodeTo(edit)
     IN  /\ encodeOk' = r.ok
         /\ dst' = IF r.ok THEN dst \o r.msg ELSE dst
  /\ pc' = "encoded"
  /\ UNCHANGED <<edit, aborted, calls, lastCall, prevEdit, decoded, decodeStatus, fdVars, ubVars>>

\* Status DecodeFrom(BoundaryValuesExtractor* extractor, const Slice& src),
\* called on a second VersionEdit with the bytes written above.
DecodeFrom ==
  /\ pc = "encoded" /\ encodeOk
  /\ LET r == Decode(dst)
     IN  /\ decoded' = r.edit
         /\ decodeStatus' = r.status
  /\ pc' = "decoded"
  /\ UNCHANGED <<edit, aborted, calls, lastCall, prevEdit, dst, encodeOk, fdVars, ubVars>>

(***************************************************************************)
(* FileDescriptor construction                                             *)
(***************************************************************************)
\* File numbers around the 62-bit limit, and path ids around the 2-bit limit.
FileNumberInputs ==
  { <<top, mid, mid, low>> :
      top \in {0, 16383, 16384, 65535}, mid \in {0, 65535}, low \in {0, 65535} }
PathIdInputs == 0..MaxPathId

\* A FileDescriptor is built from (number, path_id); the one built before is kept.
Construct(number, path_id) ==
  /\ fd' = FileDescriptor(number, path_id, 4096, 1024)
  /\ fdArgs' = <<number, path_id>>
  /\ fdPrev' = fd
  /\ fdPrevArgs' = fdArgs
  /\ UNCHANGED <<editVars, ubVars>>

(***************************************************************************)
(* FileMetaData::UpdateBoundaries                                          *)
(***************************************************************************)
KeyInputs == {Key(1), Key(2), Key(3)}
SourceInputs == {[seqno |-> 4], [seqno |-> 6]}

\* The boundary derived from a key and its source boundary values.
DerivedBoundary(key, source) == BoundaryValues(key, source.seqno)

\* Mutant of UpdateBoundaries: smallest is overwritten by every call.
UpdateBoundaries_OverwriteSmallest(key, source) ==
  /\ Len(keysFed) < MaxKeys
  /\ meta' = [smallest |-> DerivedBoundary(key, source),
              largest |-> DerivedBoundary(key, source)]
  /\ keysFed' = Append(keysFed, <<key, source>>)
  /\ UNCHANGED <<editVars, fdVars>>

\* void UpdateBoundaries(InternalKey key, const FileBoundaryValuesBase& source)
UpdateBoundaries(key, source) ==
  /\ Len(keysFed) < MaxKeys
  /\ meta' = IF meta.smallest.key = NoKey
               THEN [smallest |-> DerivedBoundary(key, source),
                     largest |-> DerivedBoundary(key, source)]
               ELSE [meta EXCEPT !.largest = DerivedBoundary(key, source)]
  /\ keysFed' = Append(keysFed, <<key, source>>)
  /\ UNCHANGED <<editVars, fdVars>>

(***************************************************************************)
(* Specifications                                                          *)
(***************************************************************************)
Init ==
  /\ edit = ClearedEdit
  /\ aborted = FALSE
  /\ calls = 0
  /\ lastCall = Call("VersionEdit", <<>>)
  /\ prevEdit = ClearedEdit
  /\ pc = "build"
  /\ dst = <<>>
  /\ encodeOk = FALSE
  /\ decoded = ClearedEdit
  /\ decodeStatus = "none"
  /\ fd = FileDescriptor(U64(0), 0, 0, 0)
  /\ fdArgs = <<U64(0), 0>>
  /\ fdPrev = FileDescriptor(U64(0), 0, 0, 0)
  /\ fdPrevArgs = <<U64(0), 0>>
  /\ meta = [smallest |-> FileMetaData.smallest, largest |-> FileMetaData.largest]
  /\ keysFed = <<>>

\* One VersionEdit is built by mutator calls, encoded, and decoded again.
Next ==
  \/ \E name \in Names : SetComparatorName(name)
  \/ \E num \in Numbers : SetLogNumber(num)
  \/ \E num \in Numbers : SetPrevLogNumber(num)
  \/ \E num \in Numbers : SetNextFile(num)
  \/ \E seq \in Numbers : SetLastSequence(seq)
  \/ \E value \in OpIds : SetFlushedOpId(value)
  \/ \E id \in Numbers : SetMaxColumnFamily(id)
  \/ \E id \in Numbers : SetColumnFamily(id)
  \/ \E level \in Levels, f \in Files :
       AddTestFile(level, f.fd, f.smallest, f.largest, f.marked_for_compaction)
  \/ \E level \in Levels, f \in Files : AddFile(level, f)
  \/ \E level \in Levels, f \in Files : AddCleanedFile(level, f)
  \/ \E level \in Levels, file \in FileNumbers : DeleteFile(level, file)
  \/ \E name \in Names : AddColumnFamily(name)
  \/ DropColumnFamily
  \/ Clear
  \/ AppendEncodedTo
  \/ DecodeFrom

Spec == Init /\ [][Next]_vars

\* FileDescriptors are constructed one after another.
NextFD == \E number \in FileNumberInputs, path_id \in PathIdInputs : Construct(number, path_id)

SpecFD == Init /\ [][NextFD]_vars

\* Keys are fed to UpdateBoundaries of one fresh FileMetaData.
NextUB == \E key \in KeyInputs, source \in SourceInputs : UpdateBoundaries(key, source)

SpecUB == Init /\ [][NextUB]_vars

(***************************************************************************)
(* Helpers of the properties                                               *)
(***************************************************************************)
\* The column-family role of a record.
Role(e) ==
  IF IsColumnFamilyAdd(e) /\ e.is_column_family_drop_ THEN "create-and-drop"
  ELSE IF IsColumnFamilyAdd(e) THEN "create"
  ELSE IF e.is_column_family_drop_ THEN "drop"
  ELSE "file-edit"

\* The last mutator call was op and returned normally.
Returned(op) == calls > 0 /\ lastCall.op = op /\ ~aborted

\* The last mutator call was one of ops (whether or not it returned).
LastCallIn(ops) == calls > 0 /\ lastCall.op \in ops

\* A FileMetaData without what only a live process gives it.
WithoutTransient(f) ==
  [f EXCEPT !.refs = 0,
            !.being_compacted = FALSE,
            !.table_reader_handle = NullPtr,
            !.fd = [@ EXCEPT !.table_reader = NullPtr]]

\* A record as it is expected back from the persisted bytes.
Persisted(e) ==
  [e EXCEPT !.new_files_ =
     [i \in 1..Len(@) |-> <<@[i][1], WithoutTransient(@[i][2])>>]]

(***************************************************************************)
(* C1. Round trip: AppendEncodedTo on a record built through the mutators  *)
(* returns true, and DecodeFrom on the bytes it wrote succeeds and yields  *)
(* a record with the same optional fields (set or not, and their values),  *)
(* the same flushed op id, the same new files in the same order, the same  *)
(* deleted files and the same column-family fields, where refs, the table  *)
(* reader, the reader handle and being_compacted of every new file are at  *)
(* their defaults.                                                         *)
(***************************************************************************)
InvRoundTrip ==
  /\ pc \in {"encoded", "decoded"} => encodeOk
  /\ pc = "decoded" =>
       /\ decodeStatus = "ok"
       /\ decoded = Persisted(edit)
       /\ \A i \in 1..Len(decoded.new_files_) :
            LET f == decoded.new_files_[i][2]
            IN  /\ f.refs = 0
                /\ f.table_reader_handle = NullPtr
                /\ f.fd.table_reader = NullPtr
                /\ ~f.being_compacted

\* A record with a log number of zero, no previous log number and two
\* different files, the first one live in the process, was encoded and decoded.
WitRoundTrip ==
  /\ pc = "decoded"
  /\ edit.log_number_ = Some(0)
  /\ ~IsSet(edit.prev_log_number_)
  /\ Len(edit.new_files_) = 2
  /\ edit.new_files_[1] = <<3, liveFile>>
  /\ edit.new_files_[2] = <<2, plainFile>>
  /\ decoded # edit

(***************************************************************************)
(* C2. Column-family lifecycle and file edits exclude each other: a record *)
(* whose column-family name is set or whose drop flag is true has no new   *)
(* files and no deleted files, and a file mutation called on such a record *)
(* fails its assertion.                                                    *)
(***************************************************************************)
InvLifecycleExcludesFiles ==
  /\ IsColumnFamilyManipulation(edit) => NumEntries(edit) = 0
  /\ ( /\ LastCallIn({"AddFile", "AddCleanedFile", "AddTestFile", "DeleteFile"})
       /\ IsColumnFamilyManipulation(prevEdit) ) => aborted

InvBoundarySeqnoOrder ==
  /\ \A i \in 1..Len(edit.new_files_) :
       edit.new_files_[i][2].smallest.seqno <= edit.new_files_[i][2].largest.seqno
  /\ ( /\ LastCallIn({"AddFile", "AddCleanedFile"})
       /\ lastCall.args[2].smallest.seqno > lastCall.args[2].largest.seqno )
       => (aborted /\ edit.new_files_ = prevEdit.new_files_)
  /\ ( /\ LastCallIn({"AddTestFile"})
       /\ lastCall.args[3].seqno > lastCall.args[4].seqno )
       => (aborted /\ edit.new_files_ = prevEdit.new_files_)

\* AddFile was called with smallest.seqno = 9 and largest.seqno = 5 on a
\* record that already holds a file.
WitInvalidFileAdd ==
  /\ aborted
  /\ lastCall.op = "AddFile"
  /\ lastCall.args[2].smallest.seqno = 9
  /\ lastCall.args[2].largest.seqno = 5
  /\ Len(edit.new_files_) = 1

(***************************************************************************)
(* C7. DeleteFile has set semantics: deleting a (level, file) pair that is *)
(* already deleted changes nothing in the record; deleting a new pair adds *)
(* exactly that pair; deleted_files_ never holds a pair twice, so its size *)
(* is the number of distinct pairs deleted.                                *)
(***************************************************************************)
InvDeleteFileIdempotent ==
  /\ \A i, j \in 1..Len(edit.deleted_files_) :
       edit.deleted_files_[i] = edit.deleted_files_[j] => i = j
  /\ Len(edit.deleted_files_) = Cardinality(Range(edit.deleted_files_))
  /\ Returned("DeleteFile") =>
       LET pair == <<lastCall.args[1], lastCall.args[2]>>
       IN  /\ Range(edit.deleted_files_) = Range(prevEdit.deleted_files_) \cup {pair}
           /\ pair \in Range(prevEdit.deleted_files_) => edit = prevEdit
           /\ [edit EXCEPT !.deleted_files_ = <<>>] = [prevEdit EXCEPT !.deleted_files_ = <<>>]

\* DeleteFile(3, 100) was called on a record where (3, 100) was deleted already.
WitDeleteTwice ==
  /\ Returned("DeleteFile")
  /\ lastCall.args = <<3, 100>>
  /\ prevEdit.deleted_files_ = << <<3, 100>> >>
  /\ Len(edit.deleted_files_) = 1

(***************************************************************************)
(* C8. New files are kept in call order and counted by NumEntries: a       *)
(* successful AddFile appends (level, record) as given, AddCleanedFile and *)
(* AddTestFile append one entry at that level, each after everything added *)
(* before, a repeated addition is kept, DeleteFile leaves the new files    *)
(* alone, and NumEntries is the number of new files plus the number of     *)
(* distinct deleted pairs.  AddFile(2, record) on a fresh record gives     *)
(* NumEntries() = 1 and new files [(2, record)].                           *)
(***************************************************************************)
InvNewFilesInCallOrder ==
  /\ NumEntries(edit) = Len(edit.new_files_) + Cardinality(Range(edit.deleted_files_))
  /\ Returned("AddFile") =>
       edit.new_files_ = prevEdit.new_files_ \o << <<lastCall.args[1], lastCall.args[2]>> >>
  /\ (Returned("AddFile") /\ prevEdit = ClearedEdit) =>
       (NumEntries(edit) = 1 /\ edit.new_files_ = << <<lastCall.args[1], lastCall.args[2]>> >>)
  /\ (Returned("AddCleanedFile") \/ Returned("AddTestFile")) =>
       /\ Len(edit.new_files_) = Len(prevEdit.new_files_) + 1
       /\ SubSeq(edit.new_files_, 1, Len(prevEdit.new_files_)) = prevEdit.new_files_
       /\ edit.new_files_[Len(edit.new_files_)][1] = lastCall.args[1]
  /\ Returned("AddCleanedFile") =>
       edit.new_files_[Len(edit.new_files_)][2].fd.packed_number_and_path_id
         = lastCall.args[2].fd.packed_number_and_path_id
  /\ Returned("AddTestFile") =>
       edit.new_files_[Len(edit.new_files_)][2].fd.packed_number_and_path_id
         = lastCall.args[2].packed_number_and_path_id
  /\ Returned("DeleteFile") => edit.new_files_ = prevEdit.new_files_
  /\ (LastCallIn({"AddFile", "AddCleanedFile", "AddTestFile", "DeleteFile"}) /\ ~aborted) =>
       NumEntries(edit) \in {NumEntries(prevEdit), NumEntries(prevEdit) + 1}

\* The same (2, record) was added twice to a record with one deleted file.
WitRepeatedAdd ==
  /\ Returned("AddFile")
  /\ lastCall.args = <<2, liveFile>>
  /\ prevEdit.new_files_ = << <<2, liveFile>> >>
  /\ Len(edit.deleted_files_) = 1
  /\ NumEntries(edit) = 3

(***************************************************************************)
(* C10. AddCleanedFile stores a cleaned copy: the entry it appends has the *)
(* packed number and path id, the sizes, smallest, largest, last_op_id,    *)
(* marked_for_compaction and imported of its argument, while the table     *)
(* reader and the reader handle are null, refs is 0, being_compacted is    *)
(* false, the entry, deletion and raw size counts are 0 and the stats are  *)
(* not initialized, whatever the argument holds there.                     *)
(***************************************************************************)
InvAddCleanedFile ==
  Returned("AddCleanedFile") =>
    LET f == lastCall.args[2]
        nf == edit.new_files_[Len(edit.new_files_)][2]
    IN  /\ nf.fd.packed_number_and_path_id = f.fd.packed_number_and_path_id
        /\ GetNumber(nf.fd) = GetNumber(f.fd)
        /\ GetPathId(nf.fd) = GetPathId(f.fd)
        /\ nf.fd.total_file_size = f.fd.total_file_size
        /\ nf.fd.base_file_size = f.fd.base_file_size
        /\ nf.smallest = f.smallest
        /\ nf.largest = f.largest
        /\ nf.last_op_id = f.last_op_id
        /\ nf.marked_for_compaction = f.marked_for_compaction
        /\ nf.imported = f.imported
        /\ nf.fd.table_reader = NullPtr
        /\ nf.table_reader_handle = NullPtr
        /\ nf.refs = 0
        /\ ~nf.being_compacted
        /\ nf.num_entries = 0
        /\ nf.num_deletions = 0
        /\ nf.raw_key_size = 0
        /\ nf.raw_value_size = 0
        /\ ~nf.init_stats_from_file

\* AddCleanedFile was called with a file that is live in the process.
WitCleanedLiveFile ==
  /\ Returned("AddCleanedFile")
  /\ lastCall.args[2] = liveFile
  /\ liveFile.refs # 0 /\ liveFile.fd.table_reader # NullPtr /\ liveFile.num_entries # 0
  /\ edit.new_files_[Len(edit.new_files_)][2] # liveFile

\* A (number, path_id) pair within the 62-bit and 2-bit limits.
InRange(args) == FitsFileNumber(args[1]) /\ FitsPathId(args[2])

(***************************************************************************)
(* C4. Packing is a bijection in range: for a file number of at most       *)
(* 2^62 - 1 and a path id of at most 3 the packed value is                 *)
(* number + path_id * (kFileNumberMask + 1), GetNumber and GetPathId give  *)
(* the two back, and two different in-range pairs have different packed    *)
(* values.                                                                 *)
(***************************************************************************)
InvPackingBijection ==
  InRange(fdArgs) =>
    /\ fd.packed_number_and_path_id = Add64(fdArgs[1], MulByUnit(fdArgs[2]))
    /\ GetNumber(fd) = fdArgs[1]
    /\ GetPathId(fd) = fdArgs[2]
    /\ (InRange(fdPrevArgs) /\ fdPrevArgs # fdArgs) =>
         fdPrev.packed_number_and_path_id # fd.packed_number_and_path_id

\* The largest file number on the last path, after the same number on path 2.
WitPackLargest ==
  /\ fdArgs = <<kFileNumberMask, 3>>
  /\ fdPrevArgs = <<kFileNumberMask, 2>>
  /\ GetPathId(fd) = 3

(***************************************************************************)
(* C5. Out-of-range identities are rejected: no FileDescriptor exists      *)
(* whose GetNumber or GetPathId differs from what it was constructed from, *)
(* and no two FileDescriptors constructed from different (number, path id) *)
(* pairs share a packed value.                                             *)
(***************************************************************************)
InvNoCorruptIdentity ==
  /\ GetNumber(fd) = fdArgs[1]
  /\ GetPathId(fd) = fdArgs[2]
  /\ fdPrevArgs # fdArgs => fdPrev.packed_number_and_path_id # fd.packed_number_and_path_id

\* The keys fed so far are in non-decreasing order.
KeysSorted ==
  \A i \in 1..(Len(keysFed) - 1) : keysFed[i][1][1] <= keysFed[i + 1][1][1]

(***************************************************************************)
(* C9. Boundaries follow sorted keys: after one or more UpdateBoundaries   *)
(* calls with keys in non-decreasing order, smallest is the boundary       *)
(* derived from the first key and largest the one derived from the last.   *)
(* Every prefix of a sorted sequence is sorted, so smallest is the same    *)
(* after every call.                                                       *)
(***************************************************************************)
InvBoundariesFollowSortedKeys ==
  (Len(keysFed) >= 1 /\ KeysSorted) =>
    /\ meta.smallest = DerivedBoundary(keysFed[1][1], keysFed[1][2])
    /\ meta.largest = DerivedBoundary(keysFed[Len(keysFed)][1], keysFed[Len(keysFed)][2])

\* Three keys in order, the first and the last different in key and source.
WitThreeSortedKeys ==
  /\ Len(keysFed) = 3
  /\ KeysSorted
  /\ keysFed[1][1] # keysFed[3][1]
  /\ keysFed[1][2] # keysFed[3][2]
  /\ meta.smallest # meta.largest

====
